---- MODULE Spec2Model ----
(***************************************************************************)
(* Model of the test-ssdp UPnP control point: the SSDP discovery module    *)
(* (ssdp-discovery.mjs), the host's device registry and its Socket.IO      *)
(* request handlers (index.js).                                            *)
(*                                                                         *)
(* JavaScript values are modelled as follows.  Objects are records whose   *)
(* DOMAIN is the set of properties the object has, so `x.p ? a : b` is a   *)
(* test on DOMAIN.  xml2js arrays are sequences (JS index 0 is index 1).   *)
(* Strings that the code compares with < and > are sequences of UTF-16     *)
(* code units; all other strings are TLA+ strings.                         *)
(***************************************************************************)
EXTENDS Integers, Sequences, FiniteSets, TLC

----------------------------------------------------------------------------
(* Bounds of the model *)

MaxResp == 2
MaxReq == 1
MaxEvents == 3
\* entries of the session history of the page
MaxHistory == 3
\* messages the page has emitted and the server has not answered
MaxPending == 2
\* 'data' events of one SCPD response
MaxChunks == 1

----------------------------------------------------------------------------
(* JavaScript values *)

\* null / undefined held by a variable that otherwise holds an object
Null == [null |-> TRUE]
Undefined == [undefined |-> TRUE]
\* null in a position that otherwise holds a string
NullStr == "<null>"

IsNull(v) == "null" \in DOMAIN v
IsUndefined(v) == "undefined" \in DOMAIN v
\* truthiness of an object-or-null/undefined value
Truthy(v) == ~IsNull(v) /\ ~IsUndefined(v)

\* String.prototype.toUpperCase on one code unit ("a".."z" are 97..122)
UpperUnit(c) == IF c >= 97 /\ c <= 122 THEN c - 32 ELSE c

\* String.prototype.toUpperCase
toUpperCase(s) == [i \in 1..Len(s) |-> UpperUnit(s[i])]

\* s < t on strings: lexicographic by code unit, a proper prefix is smaller
RECURSIVE StrLess(_, _)
StrLess(s, t) ==
  IF t = <<>> THEN FALSE
  ELSE IF s = <<>> THEN TRUE
  ELSE IF Head(s) < Head(t) THEN TRUE
  ELSE IF Head(s) > Head(t) THEN FALSE
  ELSE StrLess(Tail(s), Tail(t))

----------------------------------------------------------------------------
(* The network: SSDP responses, descriptor documents, UI connections *)

\* LOCATION headers of the SSDP responses
Locations == {"http://10.0.0.1:49152/description.xml",
              "http://10.0.0.2:49152/description.xml",
              "http://10.0.0.3:49152/description.xml"}

\* resp.LOCATION of a response without the header: http.get(undefined, cb)
\* takes cb as its options and requests http://localhost:80/
MissingLocation == "<undefined>"

\* resp.LOCATION of a response whose header is not a URL
InvalidLocation == "10.0.0.9/description.xml"

\* the LOCATION values of the responses on the network
ResponseLocations ==
  {"http://10.0.0.1:49152/description.xml",
   "http://10.0.0.2:49152/description.xml",
   MissingLocation, InvalidLocation}

\* http.get(input, cb) parses a string input with new URL(input), which
\* raises a TypeError (ERR_INVALID_URL) before any request is made
HttpGetThrows(input) == input = InvalidLocation

\* new URL(location).origin
Origin(location) ==
  CASE location = "http://10.0.0.1:49152/description.xml" -> "http://10.0.0.1:49152"
    [] location = "http://10.0.0.2:49152/description.xml" -> "http://10.0.0.2:49152"
    [] location = "http://10.0.0.3:49152/description.xml" -> "http://10.0.0.3:49152"

\* new URL(scpdUrl, baseUrl).href for a root-relative scpdUrl
ResolveUrl(scpdUrl, baseUrl) == [origin |-> baseUrl, path |-> scpdUrl]

Conns == {"c1", "c2"}

UDNs == {"uuid:1", "uuid:2"}
ServiceIds == {"urn:upnp-org:serviceId:AVTransport",
               "urn:upnp-org:serviceId:RenderingControl"}

\* <service> elements as xml2js parses them
svcAVT == [serviceId |-> <<"urn:upnp-org:serviceId:AVTransport">>,
           serviceType |-> <<"urn:schemas-upnp-org:service:AVTransport:1">>,
           SCPDURL |-> <<"/AVTransport/scpd.xml">>]
svcNoScpd == [serviceId |-> <<"urn:upnp-org:serviceId:RenderingControl">>,
              serviceType |-> <<"urn:schemas-upnp-org:service:RenderingControl:1">>]

\* <device> elements as xml2js parses them (parsed.root.device[0]); the
\* friendly names are "A", "Z", "a", "z" and ""
devAlpha == [friendlyName |-> << <<65>> >>, manufacturer |-> <<"Linkplay">>,
             deviceType |-> <<"urn:schemas-upnp-org:device:MediaRenderer:1">>,
             UDN |-> <<"uuid:1">>,
             serviceList |-> <<[service |-> <<svcAVT, svcNoScpd>>]>>]
devZulu == [friendlyName |-> << <<90>> >>, UDN |-> <<"uuid:2">>]
devLowA == [friendlyName |-> << <<97>> >>, UDN |-> <<"uuid:1">>,
            serviceList |-> <<[service |-> <<svcAVT>>]>>]
devZeta == [friendlyName |-> << <<122>> >>, UDN |-> <<"uuid:2">>,
            serviceList |-> <<[text |-> ""]>>]
devNoName == [friendlyName |-> << <<>> >>, manufacturer |-> <<"Linkplay">>]
devBare == [deviceType |-> <<"urn:schemas-upnp-org:device:Basic:1">>]

\* the <device> elements of the descriptors served on the network
DescDevices == {devAlpha, devBare}

\* results of xml2js.parseString on a fetched body
ParseError == [err |-> "Non-whitespace before first tag."]
ParsedNoRoot == [parsed |-> [html |-> <<"Not Found">>]]
ParsedNoDevice == [parsed |-> [root |-> [specVersion |-> <<"1.0">>]]]
ParsedDevice(dev) == [parsed |-> [root |-> [device |-> <<dev>>]]]

Bodies == {ParseError, ParsedNoRoot, ParsedNoDevice}
            \cup {ParsedDevice(dev) : dev \in DescDevices}

----------------------------------------------------------------------------
(* The discovery module: normalisation of a parsed descriptor *)

\* a faulty normalisation: an absent manufacturer is left undefined
NormalizeNoDefault(resp, temp) ==
  [friendlyName |-> IF "friendlyName" \in DOMAIN temp
                    THEN temp.friendlyName[1] ELSE <<>>,
   deviceInfo |-> [location |-> resp.LOCATION,
                   manufacturer |-> IF "manufacturer" \in DOMAIN temp
                                    THEN temp.manufacturer[1]
                                    ELSE "undefined"],
   extendedInfo |-> [deviceType |-> IF "deviceType" \in DOMAIN temp
                                    THEN temp.deviceType[1] ELSE "",
                     friendlyName |-> IF "friendlyName" \in DOMAIN temp
                                      THEN temp.friendlyName[1] ELSE <<>>,
                     ssidName |-> IF "ssidName" \in DOMAIN temp
                                  THEN temp.ssidName[1] ELSE "",
                     uuid |-> IF "uuid" \in DOMAIN temp
                              THEN temp.uuid[1] ELSE ""]]

\* the object emitted with the 'device' event for response resp and
\* temp = parsed.root.device[0]
Normalize(resp, temp) ==
  LET deviceInfo ==
        [location |-> resp.LOCATION,
         manufacturer |-> IF "manufacturer" \in DOMAIN temp
                          THEN temp.manufacturer[1] ELSE ""]
      extendedInfo ==
        [deviceType |-> IF "deviceType" \in DOMAIN temp
                        THEN temp.deviceType[1] ELSE "",
         friendlyName |-> IF "friendlyName" \in DOMAIN temp
                          THEN temp.friendlyName[1] ELSE <<>>,
         ssidName |-> IF "ssidName" \in DOMAIN temp
                      THEN temp.ssidName[1] ELSE "",
         uuid |-> IF "uuid" \in DOMAIN temp THEN temp.uuid[1] ELSE ""]
      friendlyName ==
        IF extendedInfo.friendlyName # <<>> THEN extendedInfo.friendlyName
        ELSE <<>>
  IN [friendlyName |-> friendlyName,
      deviceInfo |-> deviceInfo,
      extendedInfo |-> extendedInfo]

\* the xml2js.parseString callback: which event the module emits for a body
ParseCallback(resp, body) ==
  IF "err" \in DOMAIN body
  THEN [event |-> "error", cause |-> "parse"]
  ELSE IF ~("root" \in DOMAIN body.parsed)
          \/ ~("device" \in DOMAIN body.parsed.root)
  THEN [event |-> "error", cause |-> "TypeError"]
  ELSE [event |-> "device",
        d |-> Normalize(resp, body.parsed.root.device[1])]

----------------------------------------------------------------------------
(* The registry: the host's `devices` object *)

\* A JS object with string keys enumerates them in insertion order, so the
\* object is a sequence of [key, val] with pairwise different keys.
Keys(obj) == {obj[i].key : i \in DOMAIN obj}

HasKey(obj, key) == key \in Keys(obj)

\* obj[key] for a key the object has
Get(obj, key) == obj[CHOOSE i \in DOMAIN obj : obj[i].key = key].val

\* a faulty assignment: obj = { [key]: val }, dropping every other key
PutLosesOthers(obj, key, val) == <<[key |-> key, val |-> val]>>

\* obj[key] = val
Put(obj, key, val) ==
  IF HasKey(obj, key)
  THEN [i \in DOMAIN obj |->
          IF obj[i].key = key THEN [key |-> key, val |-> val] ELSE obj[i]]
  ELSE Append(obj, [key |-> key, val |-> val])

\* for (const key in obj) result.push(obj[key])
Values(obj) == [i \in DOMAIN obj |-> obj[i].val]

\* the 'device' listener reads d.ssdp.LOCATION: a TypeError when d has no ssdp
DeviceListenerThrows(d) == ~("ssdp" \in DOMAIN d)

\* the registry after the 'device' listener ran to its end on d
DeviceListenerStores(obj, d) == Put(obj, d.ssdp.LOCATION, d)

----------------------------------------------------------------------------
(* sortDevices *)

\* a faulty sort key: the name without toUpperCase()
SortNameCaseSensitive(a) ==
  IF "device" \in DOMAIN a /\ "friendlyName" \in DOMAIN a.device
  THEN a.device.friendlyName[1] ELSE <<>>

\* nameA / nameB of the comparator
SortName(a) ==
  IF "device" \in DOMAIN a /\ "friendlyName" \in DOMAIN a.device
  THEN toUpperCase(a.device.friendlyName[1]) ELSE <<>>

\* the comparator passed to Array.prototype.sort
Compare(a, b) ==
  IF StrLess(SortName(a), SortName(b)) THEN -1
  ELSE IF StrLess(SortName(b), SortName(a)) THEN 1
  ELSE 0

\* a faulty insertion: an element is placed before the elements it compares
\* equal to
RECURSIVE InsertUnstable(_, _)
InsertUnstable(x, sorted) ==
  IF sorted = <<>> THEN <<x>>
  ELSE IF Compare(x, Head(sorted)) <= 0 THEN <<x>> \o sorted
  ELSE <<Head(sorted)>> \o InsertUnstable(x, Tail(sorted))

\* Array.prototype.sort is stable: an element is placed behind every element
\* that does not compare greater than it
RECURSIVE Insert(_, _)
Insert(x, sorted) ==
  IF sorted = <<>> THEN <<x>>
  ELSE IF Compare(x, Head(sorted)) < 0 THEN <<x>> \o sorted
  ELSE <<Head(sorted)>> \o Insert(x, Tail(sorted))

RECURSIVE SortFrom(_, _)
SortFrom(sorted, rest) ==
  IF rest = <<>> THEN sorted
  ELSE SortFrom(Insert(Head(rest), sorted), Tail(rest))

sortDevices(result) == SortFrom(<<>>, result)

\* the list the 'devices' and 'discover' handlers emit
DeviceList(obj) == sortDevices(Values(obj))

----------------------------------------------------------------------------
(* Lookup of a device by UDN, as the 'services' and 'actions' handlers do *)

\* const udn = d.device && d.device.UDN ? d.device.UDN[0] : null
UdnOf(d) ==
  IF "device" \in DOMAIN d /\ "UDN" \in DOMAIN d.device
  THEN d.device.UDN[1] ELSE NullStr

\* selectedDevice after the loop over `devices`: the first match in key order
FindByUdn(obj, udn) ==
  LET hits == {i \in DOMAIN obj : UdnOf(obj[i].val) = udn}
  IN IF hits = {} THEN Null
     ELSE obj[CHOOSE i \in hits : \A j \in hits : i <= j].val

\* selectedDevice.device.serviceList[0] raises a TypeError
ServiceListThrows(sel) ==
  \/ IsNull(sel)
  \/ ~("device" \in DOMAIN sel)
  \/ ~("serviceList" \in DOMAIN sel.device)

\* selectedDevice.device.serviceList[0].service || []
ServicesOf(sel) ==
  LET list == sel.device.serviceList[1]
  IN IF "service" \in DOMAIN list THEN list.service ELSE <<>>

\* const serviceId = service.serviceId ? service.serviceId[0] : null
ServiceIdOf(service) ==
  IF "serviceId" \in DOMAIN service THEN service.serviceId[1] ELSE NullStr

\* scpdUrl after the loop over the services of the selected device
ScpdUrlOf(sel, serviceId) ==
  LET services == ServicesOf(sel)
      hits == {i \in DOMAIN services : ServiceIdOf(services[i]) = serviceId}
  IN IF hits = {} THEN NullStr
     ELSE LET service == services[CHOOSE i \in hits : \A j \in hits : i <= j]
          IN IF "SCPDURL" \in DOMAIN service THEN service.SCPDURL[1]
             ELSE NullStr

----------------------------------------------------------------------------
(* State *)

VARIABLES
  devices,         \* index.js: let devices = {}
  selectedDevice,  \* index.js: let selectedDevice = undefined
  upnpClient,      \* index.js: var upnpClient = undefined
  res,             \* the descriptor fetches started by the discovery module,
                   \* in the order of their responses: the LOCATION, how
                   \* far the fetch got, the object emitted with 'device'
                   \* for it, the Error emitted with 'error' for it, and
                   \* the number of requests made for it
  errors,          \* number of 'error' events the host has logged
  lastEmitted,     \* per location, the last object emitted with 'device'
  timers,          \* per connection, the pending setTimeout of 'discover'
  hostSearches,    \* searches sent on the host's own SSDP client
  moduleSearches,  \* searches sent on the SSDP client of the discovery
                   \* module, the one whose 'response' event is listened to
  listeners,       \* the events that have a listener: 'response' on the
                   \* SSDP client of the discovery module, 'device' and
                   \* 'error' on the emitter it returns
  scpd,            \* the SCPD fetches in flight
  calls,           \* the control calls in flight
  outbox,          \* the messages emitted: how many to each connection, and
                   \* the last one
  alive,           \* FALSE once an exception has reached the event loop
  nreq,            \* number of UI requests received
  nevents,         \* number of 'device' events raised on the emitter directly
  history,         \* app.js: the navigation states of the session history
  cursor,          \* the position of the current session history entry
  activePanel,     \* the index of the panel that has the class 'active'
  state,           \* app.js: const state = { devices, services,
                   \* selectedDevice, selectedService }
  devicesContainer,   \* the data-device-id of the items rendered
  servicesContainer,  \* the data-service-id of the items rendered
  actionsContainer,   \* the text shown in the actions panel
  discoverButton,  \* the Discover button: its disabled flag
  onceDevices,     \* number of socket.once('devices') listeners attached
  requests,        \* the messages the page has emitted that the server has
                   \* not answered yet, oldest first
  connected        \* TRUE once the socket of the page has connected

discoveryVars == <<res, errors, lastEmitted, moduleSearches, listeners>>
hostVars == <<devices, selectedDevice, upnpClient>>
ioVars == <<timers, hostSearches, scpd, calls, outbox>>
serverVars == <<hostVars, discoveryVars, ioVars, nreq, nevents>>
uiVars == <<history, cursor, activePanel, state, devicesContainer,
            servicesContainer, actionsContainer, discoverButton, onceDevices,
            requests, connected>>
vars == <<devices, selectedDevice, upnpClient, res, errors, lastEmitted,
          timers, hostSearches, moduleSearches, listeners, scpd, calls,
          outbox, alive, nreq, nevents, uiVars>>

\* the page after init(): history.replaceState has put the navigation state
\* of level 0 in the only entry; the markup, which is not part of the
\* sources, is taken to show the first panel as active
PageInit ==
  /\ history = <<[level |-> 0, deviceUdn |-> NullStr, serviceId |-> NullStr]>>
  /\ cursor = 1
  /\ activePanel = 0
  /\ state = [devices |-> <<>>, services |-> <<>>,
              selectedDevice |-> NullStr, selectedService |-> NullStr]
  /\ devicesContainer = <<>>
  /\ servicesContainer = <<>>
  /\ actionsContainer = ""
  /\ discoverButton = [disabled |-> FALSE]
  /\ onceDevices = 0
  /\ requests = <<>>
  /\ connected = FALSE

Init ==
  /\ devices = <<>>
  /\ selectedDevice = Undefined
  /\ upnpClient = Undefined
  /\ res = <<>>
  /\ errors = 0
  /\ lastEmitted = [l \in Locations \cup ResponseLocations |-> Null]
  /\ timers = [c \in Conns |-> 0]
  /\ hostSearches = 0
  /\ moduleSearches = 1
  /\ listeners = {"response", "device", "error"}
  /\ scpd = <<>>
  /\ calls = <<>>
  /\ outbox = [n |-> [c \in Conns |-> 0], last |-> [ev |-> "none"]]
  /\ alive = TRUE
  /\ nreq = 0
  /\ nevents = 0
  /\ PageInit

\* socket.emit(ev, data) on connection c
Emit(c, ev, data) ==
  outbox' = [n |-> [outbox.n EXCEPT ![c] = @ + 1],
             last |-> [conn |-> c, ev |-> ev, data |-> data]]

----------------------------------------------------------------------------
(* The discovery module *)

\* a faulty listener: a response whose LOCATION was seen before is recorded
\* and not fetched
SsdpResponseDedup(location) ==
  /\ alive
  /\ moduleSearches > 0
  /\ Len(res) < MaxResp
  /\ IF \E r \in DOMAIN res : res[r].LOCATION = location
     THEN /\ res' = Append(res, [LOCATION |-> location, st |-> "duplicate",
                                 d |-> Null, err |-> Null, gets |-> 0])
          /\ UNCHANGED alive
     ELSE IF HttpGetThrows(location)
     THEN /\ res' = Append(res, [LOCATION |-> location, st |-> "getThrew",
                                 d |-> Null, err |-> Null, gets |-> 0])
          /\ alive' = FALSE
     ELSE /\ res' = Append(res, [LOCATION |-> location, st |-> "fetching",
                                 d |-> Null, err |-> Null, gets |-> 1])
          /\ UNCHANGED alive
  /\ UNCHANGED <<errors, lastEmitted, moduleSearches, hostVars, ioVars, nreq,
                 nevents>>
  /\ UNCHANGED <<listeners, uiVars>>

\* ssdpClient.on('response') of the module's client, which has sent a search:
\* http.get(resp.LOCATION) is started; when it
\* raises, the exception leaves the listener and reaches the event loop
SsdpResponse(location) ==
  /\ alive
  /\ moduleSearches > 0
  /\ Len(res) < MaxResp
  /\ IF HttpGetThrows(location)
     THEN /\ res' = Append(res, [LOCATION |-> location, st |-> "getThrew",
                                 d |-> Null, err |-> Null, gets |-> 0])
          /\ alive' = FALSE
     ELSE /\ res' = Append(res, [LOCATION |-> location, st |-> "fetching",
                                 d |-> Null, err |-> Null, gets |-> 1])
          /\ UNCHANGED alive
  /\ UNCHANGED <<errors, lastEmitted, moduleSearches, hostVars, ioVars, nreq,
                 nevents>>
  /\ UNCHANGED <<listeners, uiVars>>

\* a faulty error path: the failed fetch also stores an entry
FetchErrorRegisters(r) ==
  /\ alive
  /\ r \in DOMAIN res
  /\ res[r].st = "fetching"
  /\ res' = [res EXCEPT ![r].st = "fetchError",
                         ![r].err = [cause |-> "ECONNREFUSED"]]
  /\ errors' = errors + 1
  /\ devices' = Put(devices, res[r].LOCATION,
                    [ssdp |-> [LOCATION |-> res[r].LOCATION]])
  /\ UNCHANGED <<lastEmitted, moduleSearches, selectedDevice, upnpClient,
                 ioVars, alive,
                 nreq, nevents>>
  /\ UNCHANGED <<listeners, uiVars>>

\* a faulty error path: the failed request is made again
FetchErrorRetries(r) ==
  /\ alive
  /\ r \in DOMAIN res
  /\ res[r].st = "fetching"
  /\ res' = [res EXCEPT ![r].gets = @ + 1]
  /\ errors' = errors + 1
  /\ UNCHANGED <<lastEmitted, moduleSearches, hostVars, ioVars, alive, nreq,
                 nevents>>
  /\ UNCHANGED <<listeners, uiVars>>

\* .on('error'): the request failed; the module emits 'error' with the
\* Error of the request
FetchError(r) ==
  /\ alive
  /\ r \in DOMAIN res
  /\ res[r].st = "fetching"
  /\ res' = [res EXCEPT ![r].st = "fetchError",
                         ![r].err = [cause |-> "ECONNREFUSED"]]
  /\ errors' = errors + 1
  /\ UNCHANGED <<lastEmitted, moduleSearches, hostVars, ioVars, alive, nreq,
                 nevents>>
  /\ UNCHANGED <<listeners, uiVars>>

\* a faulty completion: the body of a response is handled only when no
\* earlier response is still being fetched
FetchEndSerialized(r, body) ==
  /\ alive
  /\ r \in DOMAIN res
  /\ res[r].st = "fetching"
  /\ \A q \in 1..(r - 1) : res[q].st # "fetching"
  /\ LET out == ParseCallback(res[r], body)
     IN IF out.event = "error"
        THEN /\ res' = [res EXCEPT ![r].st = "resolveError",
                                  ![r].err = [cause |-> out.cause]]
             /\ errors' = errors + 1
             /\ UNCHANGED <<lastEmitted, devices>>
        ELSE /\ lastEmitted' = [lastEmitted EXCEPT ![res[r].LOCATION] = out.d]
             /\ IF DeviceListenerThrows(out.d)
                THEN /\ res' = [res EXCEPT ![r].st = "listenerThrew",
                                          ![r].d = out.d,
                                          ![r].err = [cause |-> "TypeError"]]
                     /\ errors' = errors + 1
                     /\ UNCHANGED devices
                ELSE /\ res' = [res EXCEPT ![r].st = "registered",
                                          ![r].d = out.d]
                     /\ devices' = DeviceListenerStores(devices, out.d)
                     /\ UNCHANGED errors
  /\ UNCHANGED <<moduleSearches, selectedDevice, upnpClient, ioVars, alive,
                 nreq, nevents>>
  /\ UNCHANGED <<listeners, uiVars>>

\* response.on('end'): the body is parsed; 'device' is emitted from inside
\* the try block, so the host's listener runs there and an exception it
\* raises is caught and re-emitted as 'error'
FetchEnd(r, body) ==
  /\ alive
  /\ r \in DOMAIN res
  /\ res[r].st = "fetching"
  /\ LET out == ParseCallback(res[r], body)
     IN IF out.event = "error"
        THEN /\ res' = [res EXCEPT ![r].st = "resolveError",
                                  ![r].err = [cause |-> out.cause]]
             /\ errors' = errors + 1
             /\ UNCHANGED <<lastEmitted, devices>>
        ELSE /\ lastEmitted' = [lastEmitted EXCEPT ![res[r].LOCATION] = out.d]
             /\ IF DeviceListenerThrows(out.d)
                THEN /\ res' = [res EXCEPT ![r].st = "listenerThrew",
                                          ![r].d = out.d,
                                          ![r].err = [cause |-> "TypeError"]]
                     /\ errors' = errors + 1
                     /\ UNCHANGED devices
                ELSE /\ res' = [res EXCEPT ![r].st = "registered",
                                          ![r].d = out.d]
                     /\ devices' = DeviceListenerStores(devices, out.d)
                     /\ UNCHANGED errors
  /\ UNCHANGED <<moduleSearches, selectedDevice, upnpClient, ioVars, alive,
                 nreq, nevents>>
  /\ UNCHANGED <<listeners, uiVars>>

----------------------------------------------------------------------------
(* The host: the listener of the discovery emitter *)

\* Objects of the shape the host reads: d.ssdp.LOCATION, d.device.UDN,
\* d.device.friendlyName, d.device.serviceList
HostEvent(l, dev) == [ssdp |-> [LOCATION |-> l], device |-> dev]

HostEvents ==
  {HostEvent("http://10.0.0.1:49152/description.xml", devAlpha),
   HostEvent("http://10.0.0.1:49152/description.xml", devZulu),
   HostEvent("http://10.0.0.2:49152/description.xml", devLowA),
   HostEvent("http://10.0.0.2:49152/description.xml", devZeta),
   HostEvent("http://10.0.0.3:49152/description.xml", devNoName),
   HostEvent("http://10.0.0.3:49152/description.xml", devBare),
   [ssdp |-> [LOCATION |-> "http://10.0.0.3:49152/description.xml"]]}

\* discovery.on('device', d => ...) run on an event object d
DeviceEvent(d) ==
  /\ alive
  /\ nevents < MaxEvents
  /\ nevents' = nevents + 1
  /\ IF DeviceListenerThrows(d)
     THEN /\ alive' = FALSE
          /\ UNCHANGED devices
     ELSE /\ devices' = DeviceListenerStores(devices, d)
          /\ UNCHANGED alive
  /\ UNCHANGED <<selectedDevice, upnpClient, discoveryVars, ioVars, nreq>>
  /\ UNCHANGED uiVars

----------------------------------------------------------------------------
(* The host: Socket.IO handlers *)

\* a faulty listing: the registry itself is put in the order of the list
DevicesSortsRegistry(c) ==
  /\ alive
  /\ nreq < MaxReq
  /\ nreq' = nreq + 1
  /\ Emit(c, "devices", DeviceList(devices))
  /\ devices' = [i \in DOMAIN devices |->
                   [key |-> DeviceList(devices)[i].ssdp.LOCATION,
                    val |-> DeviceList(devices)[i]]]
  /\ UNCHANGED <<selectedDevice, upnpClient, discoveryVars, timers,
                 hostSearches, scpd, calls, alive, nevents>>
  /\ UNCHANGED uiVars

\* socket.on("devices")
Devices(c) ==
  /\ alive
  /\ nreq < MaxReq
  /\ nreq' = nreq + 1
  /\ Emit(c, "devices", DeviceList(devices))
  /\ UNCHANGED <<hostVars, discoveryVars, timers, hostSearches, scpd, calls,
                 alive, nevents>>
  /\ UNCHANGED uiVars

\* a faulty rescan: the registry is emptied before the search
DiscoverClears(c) ==
  /\ alive
  /\ nreq < MaxReq
  /\ nreq' = nreq + 1
  /\ hostSearches' = hostSearches + 1
  /\ timers' = [timers EXCEPT ![c] = @ + 1]
  /\ devices' = <<>>
  /\ UNCHANGED <<selectedDevice, upnpClient, discoveryVars, scpd, calls,
                 outbox, alive, nevents>>
  /\ UNCHANGED uiVars

\* a faulty rescan: the list is emitted at once, without the timer
DiscoverNoWindow(c) ==
  /\ alive
  /\ nreq < MaxReq
  /\ nreq' = nreq + 1
  /\ hostSearches' = hostSearches + 1
  /\ Emit(c, "devices", DeviceList(devices))
  /\ UNCHANGED <<hostVars, discoveryVars, timers, scpd, calls, alive,
                 nevents>>
  /\ UNCHANGED uiVars

\* socket.on("discover"): search on the host's SSDP client, then a timer
Discover(c) ==
  /\ alive
  /\ nreq < MaxReq
  /\ nreq' = nreq + 1
  /\ hostSearches' = hostSearches + 1
  /\ timers' = [timers EXCEPT ![c] = @ + 1]
  /\ UNCHANGED <<hostVars, discoveryVars, scpd, calls, outbox, alive,
                 nevents>>
  /\ UNCHANGED uiVars

\* a faulty timer callback: the list is sent with io.emit, to every
\* connection
DiscoverTimeoutBroadcasts(c) ==
  /\ alive
  /\ timers[c] > 0
  /\ timers' = [timers EXCEPT ![c] = @ - 1]
  /\ outbox' = [n |-> [k \in Conns |-> outbox.n[k] + 1],
                last |-> [conn |-> c, ev |-> "devices",
                          data |-> DeviceList(devices)]]
  /\ UNCHANGED <<hostVars, discoveryVars, hostSearches, scpd, calls, alive,
                 nreq, nevents>>
  /\ UNCHANGED uiVars

\* the setTimeout callback of 'discover'
DiscoverTimeout(c) ==
  /\ alive
  /\ timers[c] > 0
  /\ timers' = [timers EXCEPT ![c] = @ - 1]
  /\ Emit(c, "devices", DeviceList(devices))
  /\ UNCHANGED <<hostVars, discoveryVars, hostSearches, scpd, calls, alive,
                 nreq, nevents>>
  /\ UNCHANGED uiVars

\* the UDNs a client may name; "uuid:0" is carried by no descriptor
RequestUdns == UDNs \cup {"uuid:0", NullStr}

\* a faulty lookup: selectedDevice is not reset before the loop, so it keeps
\* the device of an earlier request when no entry matches
ServicesKeepsSelection(c, deviceUdn) ==
  /\ alive
  /\ nreq < MaxReq
  /\ nreq' = nreq + 1
  /\ LET found == FindByUdn(devices, deviceUdn)
         sel == IF IsNull(found) THEN selectedDevice ELSE found
     IN /\ selectedDevice' = sel
        /\ IF ServiceListThrows(sel)
           THEN /\ alive' = FALSE
                /\ UNCHANGED outbox
           ELSE /\ Emit(c, "services", sel.device.serviceList[1])
                /\ UNCHANGED alive
  /\ UNCHANGED <<devices, upnpClient, discoveryVars, timers, hostSearches,
                 scpd, calls, nevents>>
  /\ UNCHANGED uiVars

\* socket.on("services", deviceUdn)
Services(c, deviceUdn) ==
  /\ alive
  /\ nreq < MaxReq
  /\ nreq' = nreq + 1
  /\ LET sel == FindByUdn(devices, deviceUdn)
     IN /\ selectedDevice' = sel
        /\ IF ServiceListThrows(sel)
           THEN /\ alive' = FALSE
                /\ UNCHANGED outbox
           ELSE /\ Emit(c, "services", sel.device.serviceList[1])
                /\ UNCHANGED alive
  /\ UNCHANGED <<devices, upnpClient, discoveryVars, timers, hostSearches,
                 scpd, calls, nevents>>
  /\ UNCHANGED uiVars

\* socket.on("actions", msg) of the revision that lists a service's actions
ListActions(c, deviceUdn, serviceId) ==
  /\ alive
  /\ nreq < MaxReq
  /\ nreq' = nreq + 1
  /\ LET sel == FindByUdn(devices, deviceUdn)
     IN /\ selectedDevice' = sel
        /\ IF IsNull(sel)
           THEN UNCHANGED <<scpd, alive>>
           ELSE IF ServiceListThrows(sel)
           THEN /\ alive' = FALSE
                /\ UNCHANGED scpd
           ELSE LET scpdUrl == ScpdUrlOf(sel, serviceId)
                IN IF scpdUrl = NullStr
                   THEN UNCHANGED <<scpd, alive>>
                   ELSE /\ scpd' = Append(scpd,
                              [conn |-> c,
                               url |-> ResolveUrl(scpdUrl,
                                          Origin(sel.ssdp.LOCATION)),
                               delivered |-> 0,
                               completeResponse |-> 0])
                        /\ UNCHANGED alive
  /\ UNCHANGED <<devices, upnpClient, discoveryVars, timers, hostSearches,
                 calls, outbox, nevents>>
  /\ UNCHANGED uiVars

\* response.on('data'): the SCPD response delivers a chunk, which is added
\* to completeResponse; a body is written as its URL and the number of its
\* chunks
ScpdData(i) ==
  /\ alive
  /\ i \in DOMAIN scpd
  /\ scpd[i].delivered < MaxChunks
  /\ scpd' = [scpd EXCEPT ![i].delivered = @ + 1,
                          ![i].completeResponse = @ + 1]
  /\ UNCHANGED <<hostVars, discoveryVars, timers, hostSearches, calls, outbox,
                 alive, nreq, nevents>>
  /\ UNCHANGED uiVars

\* response.on('end'): the SCPD response ended, completeResponse is emitted
ScpdEnd(i) ==
  /\ alive
  /\ i \in DOMAIN scpd
  /\ scpd' = SubSeq(scpd, 1, i - 1) \o SubSeq(scpd, i + 1, Len(scpd))
  /\ Emit(scpd[i].conn, "actions",
          [body |-> scpd[i].url, chunks |-> scpd[i].completeResponse])
  /\ UNCHANGED <<hostVars, discoveryVars, timers, hostSearches, calls, alive,
                 nreq, nevents>>
  /\ UNCHANGED uiVars

\* the connection closes after the SCPD response has begun and before it
\* has ended: the response raises 'aborted' and, in the Node.js releases
\* that do so, 'error'; the request raises no 'error' and the response no
\* 'end'. The response has listeners for 'data' and 'end' only, so nothing
\* is emitted, and an 'error' raised on it ends the process
ScpdAborted(i, unhandled) ==
  /\ alive
  /\ i \in DOMAIN scpd
  /\ scpd' = SubSeq(scpd, 1, i - 1) \o SubSeq(scpd, i + 1, Len(scpd))
  /\ alive' = ~unhandled
  /\ UNCHANGED <<hostVars, discoveryVars, timers, hostSearches, calls, outbox,
                 nreq, nevents>>
  /\ UNCHANGED uiVars

\* the SCPD request failed before a response began:
\* { error: 'Failed to fetch SCPD URL' } is emitted
ScpdError(i) ==
  /\ alive
  /\ i \in DOMAIN scpd
  /\ scpd[i].delivered = 0
  /\ scpd' = SubSeq(scpd, 1, i - 1) \o SubSeq(scpd, i + 1, Len(scpd))
  /\ Emit(scpd[i].conn, "actions", [error |-> "Failed to fetch SCPD URL"])
  /\ UNCHANGED <<hostVars, discoveryVars, timers, hostSearches, calls, alive,
                 nreq, nevents>>
  /\ UNCHANGED uiVars

\* the action names a client may send
RequestActions == {"Play", "Pause", "Next", "Prev", "status", "Stop"}

\* ["Play", "Next", "Prev", "Pause"]
TransportActions == {"Play", "Next", "Prev", "Pause"}

\* socket.on("actions", actions) of the revision that sends control actions
Invoke(c, actions) ==
  /\ alive
  /\ nreq < MaxReq
  /\ nreq' = nreq + 1
  /\ LET status == Truthy(upnpClient) /\ actions = "status"
         control == actions \in TransportActions
         options == IF actions = "Play"
                    THEN [InstanceID |-> 0, Speed |-> 1]
                    ELSE [InstanceID |-> 0]
         statusCall == IF status
                       THEN <<[conn |-> c, service |-> "AVTransport",
                               action |-> "GetTransportInfo",
                               params |-> [InstanceID |-> 0]]>>
                       ELSE <<>>
     IN IF control /\ ~Truthy(upnpClient)
        THEN /\ alive' = FALSE
             /\ calls' = calls \o statusCall
             /\ UNCHANGED outbox
        ELSE /\ calls' = calls \o statusCall \o
                           (IF control
                            THEN <<[conn |-> c, service |-> "AVTransport",
                                    action |-> actions, params |-> options]>>
                            ELSE <<>>)
             /\ Emit(c, "actions", [text |-> "ACTIONS"])
             /\ UNCHANGED alive
  /\ UNCHANGED <<hostVars, discoveryVars, timers, hostSearches, scpd,
                 nevents>>
  /\ UNCHANGED uiVars

\* result.CurrentTransportState of a GetTransportInfo call
TransportStates == {"PLAYING", "STOPPED"}

\* the callback of upnpClient.callAction run with err: `if (err) throw err`
\* raises it out of the callback, into the event loop
CallError(i) ==
  /\ alive
  /\ i \in DOMAIN calls
  /\ calls' = SubSeq(calls, 1, i - 1) \o SubSeq(calls, i + 1, Len(calls))
  /\ alive' = FALSE
  /\ UNCHANGED <<hostVars, discoveryVars, timers, hostSearches, scpd, outbox,
                 nreq, nevents>>
  /\ UNCHANGED uiVars

\* the callback of upnpClient.callAction run with a result: the status call
\* emits result.CurrentTransportState, the control calls emit nothing
CallResult(i, transportState) ==
  /\ alive
  /\ i \in DOMAIN calls
  /\ calls' = SubSeq(calls, 1, i - 1) \o SubSeq(calls, i + 1, Len(calls))
  /\ IF calls[i].action = "GetTransportInfo"
     THEN Emit(calls[i].conn, "actions", [state |-> transportState])
     ELSE UNCHANGED outbox
  /\ UNCHANGED <<hostVars, discoveryVars, timers, hostSearches, scpd, alive,
                 nreq, nevents>>
  /\ UNCHANGED uiVars

----------------------------------------------------------------------------
(* Specifications *)

\* the program: the listener only sees what the discovery module emits (no
\* SCPD fetch is ever started there, so its callbacks are listed in HostNext)
Next ==
  \/ \E l \in ResponseLocations : SsdpResponse(l)
  \/ \E r \in 1..MaxResp : FetchError(r)
  \/ \E r \in 1..MaxResp, body \in Bodies : FetchEnd(r, body)
  \/ \E c \in Conns : Devices(c)
  \/ \E c \in Conns : Discover(c)
  \/ \E c \in Conns : DiscoverTimeout(c)
  \/ \E c \in Conns, u \in RequestUdns : Services(c, u)
  \/ \E c \in Conns, u \in RequestUdns, sid \in ServiceIds :
       ListActions(c, u, sid)
  \/ \E c \in Conns, a \in RequestActions : Invoke(c, a)

Spec == Init /\ [][Next]_vars

\* the host alone: its listener and its handlers under 'device' events of the
\* shape they read
HostNext ==
  \/ \E d \in HostEvents : DeviceEvent(d)
  \/ \E c \in Conns : Devices(c)
  \/ \E c \in Conns : Discover(c)
  \/ \E c \in Conns : DiscoverTimeout(c)
  \/ \E c \in Conns, u \in RequestUdns : Services(c, u)
  \/ \E c \in Conns, u \in RequestUdns, sid \in ServiceIds :
       ListActions(c, u, sid)
  \/ \E c \in Conns, a \in RequestActions : Invoke(c, a)
  \/ \E i \in 1..MaxReq : ScpdData(i)
  \/ \E i \in 1..MaxReq : ScpdEnd(i)
  \/ \E i \in 1..MaxReq, unhandled \in BOOLEAN :
       ScpdAborted(i, unhandled)
  \/ \E i \in 1..MaxReq : ScpdError(i)

HostSpec == Init /\ [][HostNext]_vars

\* registries the listener has built from 'device' events
SelectRegistries ==
  LET L1 == "http://10.0.0.1:49152/description.xml"
      L2 == "http://10.0.0.2:49152/description.xml"
      L3 == "http://10.0.0.3:49152/description.xml"
      Store(obj, l, dev) == DeviceListenerStores(obj, HostEvent(l, dev))
  IN {Store(<<>>, L1, devAlpha),
      Store(<<>>, L2, devZeta),
      Store(Store(<<>>, L1, devAlpha), L2, devZeta),
      Store(Store(<<>>, L1, devZulu), L2, devLowA),
      Store(Store(<<>>, L2, devLowA), L1, devAlpha),
      Store(Store(<<>>, L3, devNoName), L1, devAlpha),
      Store(Store(Store(<<>>, L2, devZeta), L1, devAlpha), L3, devBare),
      Store(Store(Store(<<>>, L1, devZulu), L3, devNoName), L2, devLowA)}

\* the values selectedDevice can hold while the process runs and the
\* registry is obj: undefined before the first request that names a device,
\* null after one that found none, or a device once stored at a location of
\* the registry that has a service list
Selections(obj) ==
  {Undefined, Null} \cup
    {d \in HostEvents : /\ ~ServiceListThrows(d)
                        /\ HasKey(obj, d.ssdp.LOCATION)}

\* the host at a moment at which a request that names a device arrives:
\* devices are registered and earlier requests have left their selection
SelectInit ==
  /\ devices \in SelectRegistries
  /\ selectedDevice \in Selections(devices)
  /\ upnpClient = Undefined
  /\ res = <<>>
  /\ errors = 0
  /\ lastEmitted = [l \in Locations \cup ResponseLocations |-> Null]
  /\ timers = [c \in Conns |-> 0]
  /\ hostSearches = 0
  /\ moduleSearches = 1
  /\ listeners = {"response", "device", "error"}
  /\ scpd = <<>>
  /\ calls = <<>>
  /\ outbox = [n |-> [c \in Conns |-> 0], last |-> [ev |-> "none"]]
  /\ alive = TRUE
  /\ nreq = 0
  /\ nevents = 0
  /\ PageInit

SelectNext ==
  \/ \E c \in Conns, u \in RequestUdns : Services(c, u)
  \/ \E c \in Conns, u \in RequestUdns, sid \in ServiceIds :
       ListActions(c, u, sid)
  \/ \E i \in 1..MaxReq : ScpdData(i)
  \/ \E i \in 1..MaxReq : ScpdEnd(i)
  \/ \E i \in 1..MaxReq, unhandled \in BOOLEAN :
       ScpdAborted(i, unhandled)
  \/ \E i \in 1..MaxReq : ScpdError(i)

SelectSpec == SelectInit /\ [][SelectNext]_vars

\* registries that hold two devices
ReplyRegistries == {obj \in SelectRegistries : Len(obj) = 2}

\* the host at a moment at which a request arrives while earlier requests
\* are still waiting for their reply: a rescan window may be open for any
\* connection, and the SCPD fetch of an 'actions' request of any connection
\* may be in flight, in which case selectedDevice is the device that
\* request found
ReplyInit ==
  /\ devices \in ReplyRegistries
  /\ timers \in [Conns -> {0, 1}]
  /\ hostSearches = Cardinality({c \in Conns : timers[c] = 1})
  /\ \/ /\ scpd = <<>>
        /\ selectedDevice = Undefined
     \/ \E c \in Conns, u \in UDNs, sid \in ServiceIds :
          LET sel == FindByUdn(devices, u)
          IN /\ ~ServiceListThrows(sel)
             /\ ScpdUrlOf(sel, sid) # NullStr
             /\ scpd = <<[conn |-> c,
                          url |-> ResolveUrl(ScpdUrlOf(sel, sid),
                                             Origin(sel.ssdp.LOCATION)),
                          delivered |-> 0,
                          completeResponse |-> 0]>>
             /\ selectedDevice = sel
  /\ upnpClient = Undefined
  /\ res = <<>>
  /\ errors = 0
  /\ lastEmitted = [l \in Locations \cup ResponseLocations |-> Null]
  /\ moduleSearches = 1
  /\ listeners = {"response", "device", "error"}
  /\ calls = <<>>
  /\ outbox = [n |-> [c \in Conns |-> 0], last |-> [ev |-> "none"]]
  /\ alive = TRUE
  /\ nreq = 0
  /\ nevents = 0
  /\ PageInit

\* the socket handlers of the revision that lists a service's actions, and
\* the callbacks they leave behind
ReplyNext ==
  \/ \E c \in Conns : Devices(c)
  \/ \E c \in Conns : Discover(c)
  \/ \E c \in Conns : DiscoverTimeout(c)
  \/ \E c \in Conns, u \in RequestUdns : Services(c, u)
  \/ \E c \in Conns, u \in RequestUdns, sid \in ServiceIds :
       ListActions(c, u, sid)
  \/ \E i \in DOMAIN scpd : ScpdData(i)
  \/ \E i \in DOMAIN scpd : ScpdEnd(i)
  \/ \E i \in DOMAIN scpd, unhandled \in BOOLEAN : ScpdAborted(i, unhandled)
  \/ \E i \in DOMAIN scpd : ScpdError(i)

ReplySpec == ReplyInit /\ [][ReplyNext]_vars

\* the discovery module with the host's listeners attached, while no UI
\* request arrives
DiscoveryNext ==
  \/ \E l \in ResponseLocations : SsdpResponse(l)
  \/ \E r \in 1..MaxResp : FetchError(r)
  \/ \E r \in 1..MaxResp, body \in Bodies : FetchEnd(r, body)

DiscoverySpec == Init /\ [][DiscoveryNext]_vars

\* the host while import('./modules/ssdp-discovery.mjs') is pending: the
\* discovery module has not run, no SSDP client exists and nothing listens
BootInit ==
  /\ devices = <<>>
  /\ selectedDevice = Undefined
  /\ upnpClient = Undefined
  /\ res = <<>>
  /\ errors = 0
  /\ lastEmitted = [l \in Locations \cup ResponseLocations |-> Null]
  /\ timers = [c \in Conns |-> 0]
  /\ hostSearches = 0
  /\ moduleSearches = 0
  /\ listeners = {}
  /\ scpd = <<>>
  /\ calls = <<>>
  /\ outbox = [n |-> [c \in Conns |-> 0], last |-> [ev |-> "none"]]
  /\ alive = TRUE
  /\ nreq = 0
  /\ nevents = 0
  /\ PageInit

\* a faulty bootstrap: the host attaches its listeners in a later turn of
\* the event loop
BootstrapAttachesLater ==
  /\ alive
  /\ moduleSearches = 0
  /\ listeners = {}
  /\ moduleSearches' = 1
  /\ listeners' = {"response"}
  /\ UNCHANGED <<hostVars, res, errors, lastEmitted, ioVars, alive, nreq,
                 nevents, uiVars>>

\* the continuation of the import: startDiscovery() creates the emitter and
\* the SSDP client, sends the search and attaches the 'response' listener,
\* and the host attaches 'device' and 'error' to the emitter returned, all
\* in one synchronous run
Bootstrap ==
  /\ alive
  /\ moduleSearches = 0
  /\ listeners = {}
  /\ moduleSearches' = 1
  /\ listeners' = {"response", "device", "error"}
  /\ UNCHANGED <<hostVars, res, errors, lastEmitted, ioVars, alive, nreq,
                 nevents, uiVars>>

BootNext ==
  \/ Bootstrap
  \/ DiscoveryNext

BootSpec == BootInit /\ [][BootNext]_vars

\* the host with a control client in place: index.js never assigns
\* upnpClient, so the callbacks of callAction run only from such a state
ControlClient == [url |-> "http://10.0.0.1:49152/description.xml"]

ControlInit ==
  /\ devices = <<>>
  /\ selectedDevice = Undefined
  /\ upnpClient = ControlClient
  /\ res = <<>>
  /\ errors = 0
  /\ lastEmitted = [l \in Locations \cup ResponseLocations |-> Null]
  /\ timers = [c \in Conns |-> 0]
  /\ hostSearches = 0
  /\ moduleSearches = 1
  /\ listeners = {"response", "device", "error"}
  /\ scpd = <<>>
  /\ calls = <<>>
  /\ outbox = [n |-> [c \in Conns |-> 0], last |-> [ev |-> "none"]]
  /\ alive = TRUE
  /\ nreq = 0
  /\ nevents = 0
  /\ PageInit

ControlNext ==
  \/ \E d \in HostEvents : DeviceEvent(d)
  \/ \E c \in Conns : Devices(c)
  \/ \E c \in Conns, a \in RequestActions : Invoke(c, a)
  \/ \E i \in 1..MaxReq : CallError(i)
  \/ \E i \in 1..MaxReq, transportState \in TransportStates :
       CallResult(i, transportState)

ControlSpec == ControlInit /\ [][ControlNext]_vars

----------------------------------------------------------------------------
(* The page: public/app.js, in the revision that applies navigation states *)

\* a string that is truthy in JavaScript; null is written NullStr
TruthyStr(s) == s # NullStr /\ s # ""

\* { level, deviceUdn, serviceId }
NavState(level, deviceUdn, serviceId) ==
  [level |-> level, deviceUdn |-> deviceUdn, serviceId |-> serviceId]

\* socket.emit(ev) and socket.emit(ev, { deviceUdn, serviceId, SCPDURL }); a
\* property the message does not carry is NullStr
Request(ev, deviceUdn, serviceId, scpdUrl) ==
  [ev |-> ev, deviceUdn |-> deviceUdn, serviceId |-> serviceId,
   SCPDURL |-> scpdUrl]

\* a rendered service item: its data-service-id and data-scpcurl
ServiceItem(id, scpcurl) == [id |-> id, scpcurl |-> scpcurl]

WithoutRequest(i) ==
  SubSeq(requests, 1, i - 1) \o SubSeq(requests, i + 1, Len(requests))

\* the server handles the messages of a connection in order, and answers
\* 'devices' and 'services' while it handles them: the answer to request i
\* cannot arrive before the answers to such requests emitted earlier
Deliverable(i) ==
  /\ i \in DOMAIN requests
  /\ \A j \in 1..(i - 1) : requests[j].ev \notin {"devices", "services"}

\* the device lists the server sends: a sorted registry
DeviceLists ==
  LET L1 == "http://10.0.0.1:49152/description.xml"
      L2 == "http://10.0.0.2:49152/description.xml"
      L3 == "http://10.0.0.3:49152/description.xml"
      Store(obj, l, dev) == DeviceListenerStores(obj, HostEvent(l, dev))
  IN {DeviceList(<<>>),
      DeviceList(Store(Store(<<>>, L1, devAlpha), L2, devZeta)),
      DeviceList(Store(Store(<<>>, L3, devNoName), L1, devAlpha))}

\* the registered devices a request that names deviceUdn can select
Candidates(deviceUdn) == {d \in HostEvents : UdnOf(d) = deviceUdn}

\* the payloads the server sends in answer to 'services': the serviceList
\* element of the device selected
ServicePayloads(deviceUdn) ==
  {d.device.serviceList[1] :
     d \in {h \in Candidates(deviceUdn) : ~ServiceListThrows(h)}}

\* the payloads the server sends in answer to 'actions': the body of the
\* SCPD document, written as its URL, or the error object
ActionPayloads(deviceUdn, serviceId) ==
  LET found == {d \in Candidates(deviceUdn) :
                  /\ ~ServiceListThrows(d)
                  /\ ScpdUrlOf(d, serviceId) # NullStr}
  IN {[body |-> ScpdUrlOf(d, serviceId)] : d \in found}
       \cup (IF found = {} THEN {}
             ELSE {[error |-> "Failed to fetch SCPD URL"]})

\* the messages applyNavigationState emits for navState
ApplyEmits(navState) ==
  IF navState.level = 1 /\ TruthyStr(navState.deviceUdn)
  THEN <<Request("services", navState.deviceUdn, NullStr, NullStr)>>
  ELSE IF /\ navState.level = 2
          /\ TruthyStr(navState.deviceUdn)
          /\ TruthyStr(navState.serviceId)
  THEN <<Request("actions", navState.deviceUdn, navState.serviceId,
                 NullStr)>>
  ELSE <<>>

\* applyNavigationState(navState), followed by the messages `after` that the
\* caller emits when it returns; every navState applied is one that was
\* pushed or replaced, so it is never null
ApplyNavigationState(navState, after) ==
  /\ Len(requests) + Len(ApplyEmits(navState)) + Len(after) <= MaxPending
  /\ state' = [state EXCEPT !.selectedDevice = navState.deviceUdn,
                            !.selectedService = navState.serviceId]
  /\ activePanel' = navState.level
  /\ servicesContainer' =
       IF navState.level = 1 /\ TruthyStr(navState.deviceUdn)
       THEN <<>> ELSE servicesContainer
  /\ actionsContainer' =
       IF /\ navState.level = 2
          /\ TruthyStr(navState.deviceUdn)
          /\ TruthyStr(navState.serviceId)
       THEN "Loading actions" ELSE actionsContainer
  /\ requests' = requests \o ApplyEmits(navState) \o after

\* pushNavigationState(level, deviceUdn, serviceId): history.pushState drops
\* the entries after the current one and adds navState
PushNavigationState(level, deviceUdn, serviceId, after) ==
  LET navState == NavState(level, deviceUdn, serviceId)
  IN /\ cursor < MaxHistory
     /\ history' = Append(SubSeq(history, 1, cursor), navState)
     /\ cursor' = cursor + 1
     /\ ApplyNavigationState(navState, after)

\* window 'popstate': the browser's Back (by = -1) or Forward (by = 1)
Popstate(by) ==
  /\ cursor + by \in DOMAIN history
  /\ cursor' = cursor + by
  /\ ApplyNavigationState(history[cursor + by], <<>>)
  /\ UNCHANGED <<history, devicesContainer, discoverButton, onceDevices,
                 connected, serverVars, alive>>

\* socket 'connect': requestDevices()
Connect ==
  /\ ~connected
  /\ connected' = TRUE
  /\ Len(requests) < MaxPending
  /\ devicesContainer' = <<>>
  /\ requests' = Append(requests, Request("devices", NullStr, NullStr,
                                          NullStr))
  /\ UNCHANGED <<history, cursor, activePanel, state, servicesContainer,
                 actionsContainer, discoverButton, onceDevices, serverVars,
                 alive>>

\* discoverButton.onclick: discoverDevices(); a disabled button raises no
\* click
DiscoverClick ==
  /\ ~discoverButton.disabled
  /\ Len(requests) < MaxPending
  /\ discoverButton' = [disabled |-> TRUE]
  /\ devicesContainer' = <<>>
  /\ requests' = Append(requests, Request("discover", NullStr, NullStr,
                                          NullStr))
  /\ onceDevices' = onceDevices + 1
  /\ UNCHANGED <<history, cursor, activePanel, state, servicesContainer,
                 actionsContainer, connected, serverVars, alive>>

\* const udn = d.device?.UDN?.[0], written into data-device-id="${udn}"
DeviceIdOf(d) ==
  IF "device" \in DOMAIN d /\ "UDN" \in DOMAIN d.device
  THEN d.device.UDN[1] ELSE "undefined"

\* renderDevices(devices): the items of the devices panel
RenderDevices(list) == [i \in DOMAIN list |-> DeviceIdOf(list[i])]

\* const id = s.serviceId?.[0], written into data-service-id="${id}"
ServiceItemOf(s) ==
  ServiceItem(IF "serviceId" \in DOMAIN s THEN s.serviceId[1]
              ELSE "undefined", NullStr)

\* const services = payload?.service || []
PayloadServices(payload) ==
  IF "service" \in DOMAIN payload THEN payload.service ELSE <<>>

\* the click handler bindDeviceSelection puts on the k-th device item
DeviceClick(k) ==
  /\ k \in DOMAIN devicesContainer
  /\ PushNavigationState(1, devicesContainer[k], NullStr, <<>>)
  /\ UNCHANGED <<devicesContainer, discoverButton, onceDevices, connected,
                 serverVars, alive>>

\* the click handler bindServiceSelection puts on the k-th service item
ServiceClick(k) ==
  /\ k \in DOMAIN servicesContainer
  /\ PushNavigationState(2, state.selectedDevice, servicesContainer[k].id,
                         <<>>)
  /\ UNCHANGED <<devicesContainer, discoverButton, onceDevices, connected,
                 serverVars, alive>>

\* a 'devices' message arrives in answer to request i: the listener of
\* bindSocketEvents runs, then every listener discoverDevices attached with
\* socket.once, which is thereby removed
OnDevices(i, list) ==
  /\ connected /\ alive
  /\ Deliverable(i)
  /\ requests[i].ev \in {"devices", "discover"}
  /\ requests' = WithoutRequest(i)
  /\ state' = [state EXCEPT !.devices = list]
  /\ devicesContainer' = RenderDevices(list)
  /\ discoverButton' = IF onceDevices > 0 THEN [disabled |-> FALSE]
                       ELSE discoverButton
  /\ onceDevices' = 0
  /\ UNCHANGED <<history, cursor, activePanel, servicesContainer,
                 actionsContainer, connected, serverVars, alive>>

\* a 'services' message arrives in answer to request i: renderServices
OnServices(i, payload) ==
  /\ connected /\ alive
  /\ Deliverable(i)
  /\ requests[i].ev = "services"
  /\ payload \in ServicePayloads(requests[i].deviceUdn)
  /\ requests' = WithoutRequest(i)
  /\ state' = [state EXCEPT !.services = PayloadServices(payload)]
  /\ servicesContainer' =
       [k \in DOMAIN PayloadServices(payload) |->
          ServiceItemOf(PayloadServices(payload)[k])]
  /\ UNCHANGED <<history, cursor, activePanel, devicesContainer,
                 actionsContainer, discoverButton, onceDevices, connected,
                 serverVars, alive>>

\* an 'actions' message arrives in answer to request i: renderActions
OnActions(i, payload) ==
  /\ connected /\ alive
  /\ Deliverable(i)
  /\ requests[i].ev = "actions"
  /\ payload \in ActionPayloads(requests[i].deviceUdn, requests[i].serviceId)
  /\ requests' = WithoutRequest(i)
  /\ actionsContainer' = IF "body" \in DOMAIN payload THEN payload.body
                         ELSE "No action data available"
  /\ UNCHANGED <<history, cursor, activePanel, state, devicesContainer,
                 servicesContainer, discoverButton, onceDevices, connected,
                 serverVars, alive>>

\* the server handles an 'actions' request and emits nothing: no device has
\* the UDN, or the service has no SCPDURL
Unanswered(i) ==
  /\ connected /\ alive
  /\ Deliverable(i)
  /\ requests[i].ev = "actions"
  /\ requests' = WithoutRequest(i)
  /\ UNCHANGED <<history, cursor, activePanel, state, devicesContainer,
                 servicesContainer, actionsContainer, discoverButton,
                 onceDevices, connected, serverVars, alive>>

\* the server's handler of request i raises a TypeError and the server
\* process ends: a 'services' request whose device is not registered or has
\* no serviceList, an 'actions' request whose device has no serviceList
ServerThrows(i) ==
  /\ connected /\ alive
  /\ Deliverable(i)
  /\ requests[i].ev \in {"services", "actions"}
  /\ requests[i].ev = "actions" =>
       {d \in Candidates(requests[i].deviceUdn) : ServiceListThrows(d)} # {}
  /\ alive' = FALSE
  /\ UNCHANGED <<uiVars, serverVars>>

PageNext ==
  \/ Connect
  \/ DiscoverClick
  \/ \E k \in DOMAIN devicesContainer : DeviceClick(k)
  \/ \E k \in DOMAIN servicesContainer : ServiceClick(k)
  \/ \E by \in {-1, 1} : Popstate(by)
  \/ \E i \in DOMAIN requests, list \in DeviceLists : OnDevices(i, list)
  \/ \E i \in DOMAIN requests :
       \E payload \in ServicePayloads(requests[i].deviceUdn) :
         OnServices(i, payload)
  \/ \E i \in DOMAIN requests :
       \E payload \in ActionPayloads(requests[i].deviceUdn,
                                     requests[i].serviceId) :
         OnActions(i, payload)
  \/ \E i \in DOMAIN requests : Unanswered(i)
  \/ \E i \in DOMAIN requests : ServerThrows(i)

PageSpec == Init /\ [][PageNext]_vars

----------------------------------------------------------------------------
(* The page: public/app.js, in the revision whose click handlers emit and
   whose render functions activate a panel *)

\* const deviceId = d.device.UDN?.[0] || d.ssdp.LOCATION
DeviceIdOrLocation(d) ==
  IF "UDN" \in DOMAIN d.device THEN d.device.UDN[1] ELSE d.ssdp.LOCATION

\* const serviceId = s.serviceId?.[0] || '' and SCPDURL?.[0] || '-'
ServiceItemOrEmpty(s) ==
  ServiceItem(IF "serviceId" \in DOMAIN s THEN s.serviceId[1] ELSE "",
              IF "SCPDURL" \in DOMAIN s THEN s.SCPDURL[1] ELSE "-")

\* the click handler bindPanelNavigation puts on the header of panel index
PanelClick(index) ==
  /\ index # activePanel
  /\ PushNavigationState(index, state.selectedDevice, state.selectedService,
                         <<>>)
  /\ UNCHANGED <<devicesContainer, discoverButton, onceDevices, connected,
                 serverVars, alive>>

\* the click handler bindDeviceSelection puts on the k-th device item: it
\* writes the selection and the loading text, which applyNavigationState
\* writes again, pushes the navigation state and emits 'services' itself
DeviceClickEmits(k) ==
  /\ k \in DOMAIN devicesContainer
  /\ PushNavigationState(1, devicesContainer[k], NullStr,
       <<Request("services", devicesContainer[k], NullStr, NullStr)>>)
  /\ UNCHANGED <<devicesContainer, discoverButton, onceDevices, connected,
                 serverVars, alive>>

\* the click handler bindServiceSelection puts on the k-th service item; the
\* id of every item rendered from a descriptor of the model is not empty,
\* so applyNavigationState repeats the writes of the handler
ServiceClickEmits(k) ==
  /\ k \in DOMAIN servicesContainer
  /\ PushNavigationState(2, state.selectedDevice, servicesContainer[k].id,
       <<Request("actions", state.selectedDevice, servicesContainer[k].id,
                 servicesContainer[k].scpcurl)>>)
  /\ UNCHANGED <<devicesContainer, discoverButton, onceDevices, connected,
                 serverVars, alive>>

\* a 'devices' message arrives: renderDevices ends with activatePanel(0)
\* when the list is not empty
OnDevicesActivates(i, list) ==
  /\ connected /\ alive
  /\ Deliverable(i)
  /\ requests[i].ev \in {"devices", "discover"}
  /\ requests' = WithoutRequest(i)
  /\ state' = [state EXCEPT !.devices = list]
  /\ devicesContainer' = [k \in DOMAIN list |-> DeviceIdOrLocation(list[k])]
  /\ activePanel' = IF list # <<>> THEN 0 ELSE activePanel
  /\ discoverButton' = IF onceDevices > 0 THEN [disabled |-> FALSE]
                       ELSE discoverButton
  /\ onceDevices' = 0
  /\ UNCHANGED <<history, cursor, servicesContainer, actionsContainer,
                 connected, serverVars, alive>>

\* a 'services' message arrives: renderServices ends with activatePanel(1)
\* when payload.service is an array that is not empty
OnServicesActivates(i, payload) ==
  /\ connected /\ alive
  /\ Deliverable(i)
  /\ requests[i].ev = "services"
  /\ payload \in ServicePayloads(requests[i].deviceUdn)
  /\ requests' = WithoutRequest(i)
  /\ servicesContainer' =
       [k \in DOMAIN PayloadServices(payload) |->
          ServiceItemOrEmpty(PayloadServices(payload)[k])]
  /\ activePanel' = IF PayloadServices(payload) # <<>> THEN 1
                    ELSE activePanel
  /\ UNCHANGED <<history, cursor, state, devicesContainer, actionsContainer,
                 discoverButton, onceDevices, connected, serverVars, alive>>

\* an 'actions' message arrives: renderActions shows the payload, which is
\* a string or an object and so is truthy, and ends with activatePanel(2)
OnActionsActivates(i, payload) ==
  /\ connected /\ alive
  /\ Deliverable(i)
  /\ requests[i].ev = "actions"
  /\ payload \in ActionPayloads(requests[i].deviceUdn, requests[i].serviceId)
  /\ requests' = WithoutRequest(i)
  /\ actionsContainer' = IF "body" \in DOMAIN payload THEN payload.body
                         ELSE payload.error
  /\ activePanel' = 2
  /\ UNCHANGED <<history, cursor, state, devicesContainer, servicesContainer,
                 discoverButton, onceDevices, connected, serverVars, alive>>

PanelPageNext ==
  \/ Connect
  \/ DiscoverClick
  \/ \E index \in 0..2 : PanelClick(index)
  \/ \E k \in DOMAIN devicesContainer : DeviceClickEmits(k)
  \/ \E k \in DOMAIN servicesContainer : ServiceClickEmits(k)
  \/ \E by \in {-1, 1} : Popstate(by)
  \/ \E i \in DOMAIN requests, list \in DeviceLists :
       OnDevicesActivates(i, list)
  \/ \E i \in DOMAIN requests :
       \E payload \in ServicePayloads(requests[i].deviceUdn) :
         OnServicesActivates(i, payload)
  \/ \E i \in DOMAIN requests :
       \E payload \in ActionPayloads(requests[i].deviceUdn,
                                     requests[i].serviceId) :
         OnActionsActivates(i, payload)
  \/ \E i \in DOMAIN requests : Unanswered(i)
  \/ \E i \in DOMAIN requests : ServerThrows(i)

PanelPageSpec == Init /\ [][PanelPageNext]_vars

----------------------------------------------------------------------------
(* Properties of discovery and registration *)

\* the descriptor of fetch r was fetched and parsed: 'device' was emitted
Resolved(r) == res[r].st \in {"registered", "listenerThrew"}

InFlight(r) == res[r].st = "fetching"

EntriesAt(l) == {i \in DOMAIN devices : devices[i].key = l}

\* C1: every registry entry is stored under the location of a fetch whose
\* descriptor was fetched and parsed, and holds an object emitted for such
\* a fetch; a fetch that failed, did not parse or is still in flight
\* contributes no entry.
C1_OnlyResolvedRegistered ==
  \A i \in DOMAIN devices :
    \E r \in DOMAIN res :
      /\ Resolved(r)
      /\ res[r].LOCATION = devices[i].key
      /\ res[r].d = devices[i].val

\* one fetch failed, one did not parse, and neither location is registered
C1_Witness ==
  \E r1, r2 \in DOMAIN res :
    /\ res[r1].st = "fetchError"
    /\ res[r2].st = "resolveError"
    /\ ~HasKey(devices, res[r1].LOCATION)
    /\ ~HasKey(devices, res[r2].LOCATION)

\* C2: every fetch whose descriptor was fetched and parsed has led to an
\* upsert: the registry has an entry under the location of the response,
\* holding an object the discovery module emitted for that location.
C2_ResolvedIsRegistered ==
  \A r \in DOMAIN res :
    Resolved(r) =>
      /\ HasKey(devices, res[r].LOCATION)
      /\ \E r2 \in DOMAIN res :
           /\ Resolved(r2)
           /\ res[r2].LOCATION = res[r].LOCATION
           /\ Get(devices, res[r].LOCATION) = res[r2].d

\* C3: once no fetch of a location is in flight, the entry at the location
\* is the object of the resolution of that location that completed last.
C3_LastCompletedWins ==
  \A l \in Locations :
    (/\ ~IsNull(lastEmitted[l])
     /\ \A r \in DOMAIN res : res[r].LOCATION = l => ~InFlight(r))
    => /\ HasKey(devices, l)
       /\ Get(devices, l) = lastEmitted[l]

\* C4: after the same location has been resolved twice with the same
\* content, the registry has exactly one entry for the location.
C4_ResolvedTwiceOneEntry ==
  \A r1, r2 \in DOMAIN res :
    (/\ r1 < r2
     /\ Resolved(r1) /\ Resolved(r2)
     /\ res[r1].LOCATION = res[r2].LOCATION
     /\ res[r1].d = res[r2].d)
    => Cardinality(EntriesAt(res[r1].LOCATION)) = 1

----------------------------------------------------------------------------
(* Properties of the registry and of the device list *)

\* C5: a 'device' event for location L changes no registry entry other
\* than the one at L: every other location keeps its entry, or stays
\* without one.
C5_UpsertFrame ==
  [][\A d \in HostEvents :
       DeviceEvent(d) =>
         \A l \in Locations \ {d.ssdp.LOCATION} :
           /\ HasKey(devices', l) <=> HasKey(devices, l)
           /\ HasKey(devices, l) => Get(devices', l) = Get(devices, l)]_vars

\* two locations are registered and an event has replaced an entry
C5_Witness ==
  /\ Len(devices) = 2
  /\ nevents = 3
  /\ devices[1].key # devices[2].key

\* C6: no step removes a location from the registry.
C6_Additive ==
  [][\A l \in Locations : HasKey(devices, l) => HasKey(devices', l)]_vars

\* a location is registered, and a rescan was requested and answered
C6_Witness ==
  /\ Len(devices) >= 1
  /\ hostSearches >= 1
  /\ nreq >= 1
  /\ outbox.last.ev = "devices"
  /\ Len(outbox.last.data) >= 1

\* the step emits one message, to connection c
EmitsTo(c) ==
  /\ outbox'.n = [outbox.n EXCEPT ![c] = @ + 1]
  /\ outbox'.last.conn = c

\* the friendly name of a listed device with the case of its letters folded
\* ("A".."Z" are 65..90); the empty string when it has none
FoldedName(a) ==
  IF "device" \in DOMAIN a /\ "friendlyName" \in DOMAIN a.device
  THEN LET name == a.device.friendlyName[1]
       IN [i \in 1..Len(name) |->
             IF name[i] >= 65 /\ name[i] <= 90 THEN name[i] + 32 ELSE name[i]]
  ELSE <<>>

\* s precedes t in the order of code units
Precedes(s, t) ==
  \E k \in 1..Len(t) :
    /\ k <= Len(s) + 1
    /\ \A i \in 1..(k - 1) : s[i] = t[i]
    /\ k = Len(s) + 1 \/ s[k] < t[k]

\* the step emits a device list to connection c
ListsDevices(c) == Devices(c) \/ DiscoverTimeout(c)

\* C7: a device list that is emitted holds every registry entry exactly once
\* and is ascending by friendly name, the case of letters ignored, a device
\* without a name counting as "".
C7_ListSorted ==
  [][\A c \in Conns :
       ListsDevices(c) =>
         LET out == outbox'.last.data
         IN /\ EmitsTo(c)
            /\ outbox'.last.ev = "devices"
            /\ Len(out) = Len(devices)
            /\ \A i \in DOMAIN devices :
                 Cardinality({j \in DOMAIN out : out[j] = devices[i].val}) = 1
            /\ \A i, j \in DOMAIN out :
                 i < j => ~Precedes(FoldedName(out[j]), FoldedName(out[i]))]_vars

\* "z", "A" and "" were registered in this order and listed as "", "A", "z"
C7_Witness ==
  /\ outbox.last.ev = "devices"
  /\ Values(devices) =
         <<HostEvent("http://10.0.0.2:49152/description.xml", devZeta),
           HostEvent("http://10.0.0.1:49152/description.xml", devAlpha),
           HostEvent("http://10.0.0.3:49152/description.xml", devNoName)>>
  /\ outbox.last.data =
         <<HostEvent("http://10.0.0.3:49152/description.xml", devNoName),
           HostEvent("http://10.0.0.1:49152/description.xml", devAlpha),
           HostEvent("http://10.0.0.2:49152/description.xml", devZeta)>>

\* the locations of the registry in the order of their keys
KeySeq(obj) == [i \in DOMAIN obj |-> obj[i].key]

\* C8: the keys of the registry stay in the order of their first insertion,
\* and two devices whose names are equal, the case of letters ignored, are
\* listed in that order.
C8_StableOrder ==
  [][/\ Len(devices) <= Len(devices')
     /\ \A i \in DOMAIN devices : KeySeq(devices')[i] = KeySeq(devices)[i]
     /\ \A c \in Conns :
          ListsDevices(c) =>
            LET out == outbox'.last.data
                At(v) == CHOOSE j \in DOMAIN out : out[j] = v
            IN \A i, j \in DOMAIN devices :
                 (i < j /\ FoldedName(devices[i].val) = FoldedName(devices[j].val))
                 => At(devices[i].val) < At(devices[j].val)]_vars

\* after three events, one of them on a location already registered, "a" is
\* at the location registered first and "A" at the second, and the list is
\* "a", "A"
C8_Witness ==
  /\ nevents = 3
  /\ Values(devices) =
       <<HostEvent("http://10.0.0.2:49152/description.xml", devLowA),
         HostEvent("http://10.0.0.1:49152/description.xml", devAlpha)>>
  /\ outbox.last.ev = "devices"
  /\ outbox.last.data = Values(devices)

----------------------------------------------------------------------------
(* Properties of the requests that name a device *)

\* no registry entry carries the UDN
Unregistered(udn) == \A i \in DOMAIN devices : UdnOf(devices[i].val) # udn

\* C9: a 'services' request naming a UDN that no registry entry carries
\* raises no exception and is answered with one message.
C9_UnknownUdnReported ==
  [][\A c \in Conns, u \in RequestUdns :
       (Services(c, u) /\ Unregistered(u)) =>
         /\ alive'
         /\ EmitsTo(c)]_vars

\* the device named is registered but has no service with the serviceId
NoSuchService(udn, serviceId) ==
  /\ ~Unregistered(udn)
  /\ LET sel == FindByUdn(devices, udn)
     IN /\ ~ServiceListThrows(sel)
        /\ \A k \in DOMAIN ServicesOf(sel) :
             ServiceIdOf(ServicesOf(sel)[k]) # serviceId

\* C10: an 'actions' request naming an unregistered UDN, or a serviceId the
\* device does not have, is answered or leaves a fetch in flight that will
\* answer it, and leaves the registry as it was.
C10_NotFoundReported ==
  [][\A c \in Conns, u \in RequestUdns, sid \in ServiceIds :
       (ListActions(c, u, sid) /\ (Unregistered(u) \/ NoSuchService(u, sid)))
       => /\ EmitsTo(c) \/ Len(scpd') > Len(scpd)
          /\ devices' = devices]_vars

----------------------------------------------------------------------------
(* Properties of the control requests *)

\* the message is a reply to an 'actions' request that reports a failure
FailureReply(m) == m.ev = "actions" /\ "error" \in DOMAIN m.data

C12_InvokeNeverThrows ==
  [][\A c \in Conns, a \in TransportActions :
       Invoke(c, a) => alive' /\ EmitsTo(c)]_vars

\* the control request of a transport action
ControlRequest(c, a) ==
  [conn |-> c, service |-> "AVTransport", action |-> a,
   params |-> IF a = "Play" THEN [InstanceID |-> 0, Speed |-> 1]
              ELSE [InstanceID |-> 0]]

\* C13: a request for a transport action starts exactly one control call,
\* on AVTransport, with that action name and InstanceID 0, and with Speed 1
\* exactly when the action is Play.
C13_OneControlRequest ==
  [][\A c \in Conns, a \in TransportActions :
       Invoke(c, a) => calls' = Append(calls, ControlRequest(c, a))]_vars

\* C14: a request for an action name that is neither a transport action nor
\* the status query starts no control call and is answered with a failure.
C14_UnsupportedRejected ==
  [][\A c \in Conns, a \in RequestActions \ (TransportActions \cup {"status"}) :
       Invoke(c, a) =>
         /\ calls' = calls
         /\ EmitsTo(c)
         /\ FailureReply(outbox'.last)]_vars

\* C15: a status request starts no call of a transport action, and a message
\* sent while it is handled carries the transport state.
C15_StatusOnlyState ==
  [][\A c \in Conns :
       Invoke(c, "status") =>
         /\ \A i \in DOMAIN calls' : calls'[i].action \notin TransportActions
         /\ outbox' # outbox => "state" \in DOMAIN outbox'.last.data]_vars

----------------------------------------------------------------------------
(* Properties of the resolution of descriptors *)

\* C16: a response without a usable LOCATION, a failed fetch and a body that
\* does not parse or has no root device each leave the process running and
\* add one 'error' event, and a response whose descriptor resolves is
\* registered under its location whatever the other responses did.
C16_MalformedDoesNotHalt ==
  [][/\ \A l \in ResponseLocations : SsdpResponse(l) => alive'
     /\ \A r \in 1..MaxResp : FetchError(r) => alive' /\ errors' = errors + 1
     /\ \A r \in 1..MaxResp, body \in Bodies :
          FetchEnd(r, body) =>
            /\ alive'
            /\ ParseCallback(res[r], body).event = "error"
                 => errors' = errors + 1
            /\ ParseCallback(res[r], body).event = "device"
                 => HasKey(devices', res[r].LOCATION)]_vars

\* the fetch of response r failed, or its body did not resolve
Failed(r) == res[r].st \in {"fetchError", "resolveError"}

C18_MandatoryFields ==
  [][\A r \in 1..MaxResp, dev \in DescDevices :
       (FetchEnd(r, ParsedDevice(dev)) /\ "UDN" \in DOMAIN dev) =>
         /\ ~IsNull(res'[r].d)
         /\ UdnOf(res'[r].d) = dev.UDN[1]
         /\ res'[r].d.deviceInfo.location \in Locations]_vars

\* the body parsed and has a root device element
HasRootDevice(body) ==
  /\ "parsed" \in DOMAIN body
  /\ "root" \in DOMAIN body.parsed
  /\ "device" \in DOMAIN body.parsed.root

\* C19: a body that parses and has a root device element makes the module
\* emit an object in which every field is the descriptor's value, or the
\* empty string where the descriptor has none; a body that does not parse or
\* has no root device makes it emit 'error' and no object.
C19_OptionalFieldsDefault ==
  [][\A r \in 1..MaxResp, body \in Bodies :
       FetchEnd(r, body) =>
         IF HasRootDevice(body)
         THEN LET dev == body.parsed.root.device[1]
                  d == res'[r].d
                  name == IF "friendlyName" \in DOMAIN dev
                          THEN dev.friendlyName[1] ELSE <<>>
              IN /\ ~IsNull(d)
                 /\ lastEmitted'[res[r].LOCATION] = d
                 /\ d.deviceInfo.location = res[r].LOCATION
                 /\ d.deviceInfo.manufacturer =
                      (IF "manufacturer" \in DOMAIN dev
                       THEN dev.manufacturer[1] ELSE "")
                 /\ d.extendedInfo.deviceType =
                      (IF "deviceType" \in DOMAIN dev
                       THEN dev.deviceType[1] ELSE "")
                 /\ d.extendedInfo.ssidName =
                      (IF "ssidName" \in DOMAIN dev
                       THEN dev.ssidName[1] ELSE "")
                 /\ d.extendedInfo.uuid =
                      (IF "uuid" \in DOMAIN dev THEN dev.uuid[1] ELSE "")
                 /\ d.extendedInfo.friendlyName = name
                 /\ d.friendlyName = name
         ELSE /\ IsNull(res'[r].d)
              /\ lastEmitted' = lastEmitted
              /\ ~IsNull(res'[r].err)
              /\ errors' = errors + 1]_vars

\* a descriptor without manufacturer and friendlyName was emitted with both
\* empty, and the body of another response yielded an error and no object
C19_Witness ==
  \E r1, r2 \in DOMAIN res :
    /\ ~IsNull(res[r1].d)
    /\ res[r1].d.deviceInfo.manufacturer = ""
    /\ res[r1].d.friendlyName = <<>>
    /\ res[r1].d.extendedInfo.deviceType # ""
    /\ res[r2].st = "resolveError"
    /\ IsNull(res[r2].d)

----------------------------------------------------------------------------
(* Properties of the SCPD fetch *)

\* the fetch of SCPD document i fails in this step: the request fails
\* before a response began, or the response is cut off before its end
ScpdFails(i) ==
  \/ ScpdError(i)
  \/ \E unhandled \in BOOLEAN : ScpdAborted(i, unhandled)

----------------------------------------------------------------------------
(* Properties of the rescan *)

\* seq is an arrangement of the values of the registry
ArrangementOfRegistry(seq) ==
  /\ Len(seq) = Len(devices)
  /\ \A i \in DOMAIN devices :
       Cardinality({j \in DOMAIN seq : seq[j] = devices[i].val}) = 1

\* C21: a rescan request sends one search, sets one timer and emits nothing;
\* the expiry of a timer emits one device list, to the connection of the
\* request, holding the registry as it is at the expiry; a timer is set and
\* cleared by nothing else, and an upsert after the expiry changes no list
\* already emitted.
C21_OneReplyAtWindowEnd ==
  [][/\ \A c \in Conns :
          /\ Discover(c) =>
               /\ hostSearches' = hostSearches + 1
               /\ timers'[c] = timers[c] + 1
               /\ outbox' = outbox
          /\ DiscoverTimeout(c) =>
               /\ timers'[c] = timers[c] - 1
               /\ EmitsTo(c)
               /\ outbox'.last.ev = "devices"
               /\ ArrangementOfRegistry(outbox'.last.data)
               /\ devices' = devices
          /\ timers'[c] # timers[c] => Discover(c) \/ DiscoverTimeout(c)
     /\ \A d \in HostEvents : DeviceEvent(d) => outbox' = outbox]_vars

\* the one request was a rescan, its timer has expired, and the list emitted
\* holds the two devices registered by then
C21_Witness ==
  /\ hostSearches = 1
  /\ nreq = 1
  /\ \A c \in Conns : timers[c] = 0
  /\ outbox.last.ev = "devices"
  /\ Len(devices) = 2
  /\ Len(outbox.last.data) = 2

\* C22: a descriptor that resolves after a rescan was requested is stored in
\* the registry under the location of its response.
C22_RescanKeepsFetches ==
  [][\A r \in 1..MaxResp, body \in Bodies :
       (/\ hostSearches >= 1
        /\ FetchEnd(r, body)
        /\ ParseCallback(res[r], body).event = "device")
       => /\ HasKey(devices', res[r].LOCATION)
          /\ Get(devices', res[r].LOCATION) = res'[r].d]_vars

\* C23: a rescan request sends its search on the client whose responses the
\* discovery module resolves.
C23_RescanReachesResolver ==
  [][\A c \in Conns :
       Discover(c) => moduleSearches' = moduleSearches + 1]_vars

----------------------------------------------------------------------------
(* Properties of the fetches *)

\* the LOCATION values for which http.get starts a request
Fetchable == ResponseLocations \ {InvalidLocation}

\* C24: every response with a LOCATION that can be requested starts a fetch
\* of its own, whether or not the LOCATION was seen before, and every fetch
\* that ends with a descriptor makes the module emit an object, whether or
\* not one was emitted for the LOCATION before.
C24_NoDeduplication ==
  [][/\ \A l \in Fetchable :
          SsdpResponse(l) =>
            /\ Len(res') = Len(res) + 1
            /\ res'[Len(res')].LOCATION = l
            /\ res'[Len(res')].st = "fetching"
            /\ res'[Len(res')].gets = 1
     /\ \A r \in 1..MaxResp, body \in Bodies :
          (FetchEnd(r, body) /\ HasRootDevice(body)) =>
            /\ ~IsNull(res'[r].d)
            /\ \A q \in DOMAIN res : q # r => res'[q] = res[q]]_vars

\* two responses carried the same LOCATION, both were fetched, and an object
\* was emitted for each
C24_Witness ==
  \E r1, r2 \in DOMAIN res :
    /\ r1 < r2
    /\ res[r1].LOCATION = res[r2].LOCATION
    /\ res[r1].gets = 1 /\ res[r2].gets = 1
    /\ ~IsNull(res[r1].d) /\ ~IsNull(res[r2].d)

\* C25: while the process runs, a response can arrive and start its fetch
\* however many fetches are outstanding, and every outstanding fetch can end,
\* with any body, whatever the state of the other fetches.
C25_FetchesNotSerialized ==
  alive =>
    /\ Len(res) < MaxResp =>
         \A l \in Fetchable : ENABLED SsdpResponse(l)
    /\ \A r \in DOMAIN res :
         InFlight(r) =>
           /\ ENABLED FetchError(r)
           /\ \A body \in Bodies : ENABLED FetchEnd(r, body)

\* the first fetch is still outstanding and the second, started after it,
\* has ended with a descriptor
C25_Witness ==
  /\ alive
  /\ Len(res) = 2
  /\ InFlight(1)
  /\ res[2].st = "listenerThrew"

----------------------------------------------------------------------------
(* Properties of the handlers *)

\* C26: the registry is changed by the listener of 'device' events only: a
\* step of a 'devices', 'discover', 'services' or 'actions' handler, of the
\* rescan timer or of an SCPD callback leaves every location and record of
\* the registry, and their order, as they were.
C26_HandlersKeepRegistry ==
  [][devices' # devices => \E d \in HostEvents : DeviceEvent(d)]_vars

\* two devices are registered and were listed in another order than the
\* registry keeps them in
C26_Witness ==
  /\ Len(devices) = 2
  /\ outbox.last.ev = "devices"
  /\ ArrangementOfRegistry(outbox.last.data)
  /\ outbox.last.data # Values(devices)

\* the services of a registry entry in the order of its descriptor
DescriptorServices(d) ==
  IF /\ "serviceList" \in DOMAIN d.device
     /\ "service" \in DOMAIN d.device.serviceList[1]
  THEN d.device.serviceList[1].service
  ELSE <<>>

----------------------------------------------------------------------------
(* Properties of the page *)

\* a click on the Discover button, on a device item or on a service item
Click ==
  \/ DiscoverClick
  \/ \E k \in DOMAIN devicesContainer : DeviceClick(k)
  \/ \E k \in DOMAIN servicesContainer : ServiceClick(k)

\* C29: a click on the Discover button, a device item or a service item
\* only pushes a navigation state: it adds one entry after the current one,
\* and the only messages emitted on the socket during the click are those
\* applyNavigationState emits for the entry pushed
C29_ClicksOnlyPushState ==
  [][Click =>
       /\ cursor' = cursor + 1
       /\ history' = Append(SubSeq(history, 1, cursor), history'[cursor'])
       /\ requests' = requests \o ApplyEmits(history'[cursor'])]_vars

----------------------------------------------------------------------------
(* Properties of the reply to a request for the actions of a service *)

----------------------------------------------------------------------------
(* Properties of a device reachable at two locations *)

\* C32: when the descriptor of the same device has been fetched and parsed
\* at two locations, the registry has an entry at each of the two
\* locations.
C32_TwoLocationsTwoEntries ==
  \A r1, r2 \in DOMAIN res :
    (/\ Resolved(r1) /\ Resolved(r2)
     /\ res[r1].LOCATION # res[r2].LOCATION
     /\ res[r1].d.extendedInfo = res[r2].d.extendedInfo)
    => /\ Cardinality(EntriesAt(res[r1].LOCATION)) = 1
       /\ Cardinality(EntriesAt(res[r2].LOCATION)) = 1

----------------------------------------------------------------------------
(* Properties of the addressing of replies *)

\* the step is the handler of a request of connection c, or a callback that
\* a request of connection c has left behind
StepFor(c) ==
  \/ Devices(c)
  \/ Discover(c)
  \/ DiscoverTimeout(c)
  \/ \E u \in RequestUdns : Services(c, u)
  \/ \E u \in RequestUdns, sid \in ServiceIds : ListActions(c, u, sid)
  \/ \E i \in DOMAIN scpd :
       /\ scpd[i].conn = c
       /\ \/ ScpdData(i)
          \/ ScpdEnd(i)
          \/ ScpdError(i)
          \/ \E unhandled \in BOOLEAN : ScpdAborted(i, unhandled)

\* C33: a step that serves connection c sends a message to no other
\* connection, and a message it sends is addressed to c: the handler of a
\* request, the expiry of a rescan window and the end of an SCPD fetch
\* reply to the connection that made the request only.
C33_RepliesToRequester ==
  [][\A c \in Conns :
       StepFor(c) =>
         /\ \A other \in Conns \ {c} : outbox'.n[other] = outbox.n[other]
         /\ outbox' # outbox => EmitsTo(c)]_vars

\* the registry was listed for c2 while a rescan window of c1 was open and
\* c1 has been sent nothing
C33_Witness ==
  /\ alive
  /\ timers["c1"] > 0
  /\ outbox.n["c1"] = 0
  /\ outbox.n["c2"] = 1
  /\ outbox.last.ev = "devices"
  /\ outbox.last.conn = "c2"

----------------------------------------------------------------------------
(* Properties of the start of discovery *)

\* C34: a discovery response is processed, and a descriptor fetch
\* completes, only while the 'device' and 'error' listeners of the host are
\* attached to the emitter: no 'device' event finds no listener and no
\* 'error' event is emitted on an emitter without an 'error' listener.
C34_ListenersBeforeResponses ==
  [][res' # res => {"response", "device", "error"} \subseteq listeners]_vars

\* after the bootstrap a descriptor was fetched and its 'device' event made
\* the listener raise, which the 'error' listener logged
C34_Witness ==
  /\ alive
  /\ listeners = {"response", "device", "error"}
  /\ errors > 0
  /\ \E r \in DOMAIN res : res[r].st = "listenerThrew"

----------------------------------------------------------------------------
(* Properties of the page's replies *)

\* C35: once Discover is clicked the button stays disabled until the device
\* list of the rescan arrives: the button is re-enabled only by a step that
\* answers a 'discover' request, never by the answer to a 'devices' request
\* emitted earlier.
C35_EnabledByRescanOnly ==
  [][(discoverButton.disabled /\ ~discoverButton'.disabled) =>
       \E i \in DOMAIN requests :
         /\ requests[i].ev = "discover"
         /\ requests' = WithoutRequest(i)]_vars

\* the ids rendered from the services of a device the server can select
\* for deviceUdn
ServiceIdsOf(deviceUdn) ==
  UNION {{ServiceItemOf(ServicesOf(d)[k]).id : k \in DOMAIN ServicesOf(d)} :
           d \in {h \in Candidates(deviceUdn) : ~ServiceListThrows(h)}}

====
